---- MODULE Spec2Model ----
(***************************************************************************)
(* A model of three parts of the RPKI validator:                           *)
(*   - the validation state (src/src/state.c): the certificate stack, the  *)
(*     parallel resource stack, the verification callback, teardown;       *)
(*   - the notifier (src/src/notify.c): the Serial Notify broadcast;       *)
(*   - file hashing (src/src/crypto/hash.c): hash_file and                 *)
(*     hash_validate_file.                                                 *)
(* Each part has its own next-state relation and specification; the        *)
(* variables of the other parts stay as Init left them.                    *)
(***************************************************************************)
EXTENDS Integers, Sequences, FiniteSets, TLC

(***************************************************************************)
(* Bounds of the model.                                                    *)
(***************************************************************************)
\* Certificates are 0..MaxCert.
MaxCert == 4
\* At most MaxAlloc calls of resources_create() in one behaviour.
MaxAlloc == 3
\* Verification error codes handed to the callback are 0..MaxVerifyError.
MaxVerifyError == 35
\* Clients are 1..MaxClients.
MaxClients == 2
\* Commits stop at serial MaxSerial.
MaxSerial == 2
\* Files hold at most MaxFileLen bytes.
MaxFileLen == 3
\* stat reports a block size in 1..MaxBlkSize.
MaxBlkSize == 2
\* The expected hash holds at most MaxExpectedLen bytes.
MaxExpectedLen == 3

(***************************************************************************)
(* Program constants.                                                      *)
(***************************************************************************)
ENOMEM == 12
EINVAL == 22
X509_V_ERR_UNHANDLED_CRITICAL_EXTENSION == 34
EAGAIN == 11

VARIABLES
    \* ---- validation state (state.c) ----
    st,            \* the struct validation of the latest malloc: "none", "live", "freed"
    tlocal,        \* thread-local slot: "null", "cur" (latest struct), "old" (an earlier one)
    out,           \* the caller's *out: "null", "cur", "old"
    verify_cb,     \* TRUE when the live store has cb registered as verify callback
    trusted,       \* state->trusted: sequence of certificates, top is the last element
    rsrcs,         \* state->rsrcs: sequence of resources objects, top is the last element
    pubkey_state,  \* state->pubkey_state
    nalloc,        \* number of resources objects allocated so far (handles 1..nalloc)
    destroyed,     \* handles given to resources_destroy()
    npush,         \* successful pushes on the current state
    npop,          \* successful pops on the current state
    last,          \* the last call: operation, arguments, result, whether it logged an error
    prev,          \* both stacks as they were when the last call started
    \* ---- notifier (notify.c) and what it reads ----
    clients,       \* the registry of connected clients
    db_ready,      \* TRUE once a snapshot was committed
    db_serial,     \* the database's last serial
    committed,     \* every serial a commit has completed
    npc,           \* notify_clients: "idle", "read", "iter", "done"
    serial,        \* notify_clients' local serial
    todo,          \* clients the iteration has not visited yet, in its order
    snap,          \* the registry when the iteration took its lock
    sent,          \* send attempts of this broadcast, in order
    nret,          \* notify_clients' return value
    nerror,        \* notify_clients' local error
    \* ---- file hashing (crypto/hash.c) ----
    h              \* the frame of one hash_validate_file call and of its hash_file call

vvars == <<st, tlocal, out, verify_cb, trusted, rsrcs, pubkey_state,
           nalloc, destroyed, npush, npop, last, prev>>

nvars == <<clients, db_ready, db_serial, committed, npc, serial, todo, snap,
           sent, nret, nerror>>

vars == <<vvars, nvars, h>>

(***************************************************************************)
(* Helpers of the call log.                                                *)
(***************************************************************************)
NULL == -1

Call(op, a, b, ret, logged) ==
    [op |-> op, a |-> a, b |-> b, ret |-> ret, logged |-> logged]

B2I(b) == IF b THEN 1 ELSE 0

Front(s) == SubSeq(s, 1, Len(s) - 1)

Stacks == [trusted |-> trusted, rsrcs |-> rsrcs]

(***************************************************************************)
(* Collaborators of state.c that live in other files of the repository.    *)
(***************************************************************************)
Certs == 0..MaxCert

\* The number resources a certificate carries: resource r (1 = IP, 2 = ASN)
\* is present when bit r-1 of the certificate is set.
CertINR(cert) == {r \in 1..2 : (cert \div (2 ^ (r - 1))) % 2 = 1}

\* Certificates from 4 on carry extensions that cannot be extracted.
certificate_get_resources(cert) ==
    IF cert >= 4
    THEN [error |-> -EINVAL, set |-> {}]
    ELSE [error |-> 0, set |-> CertINR(cert)]

resources_empty(res) == res.set = {}

pr_err == -EINVAL
pr_crit == -EINVAL
crypto_err == -EINVAL
state_store_err == ENOMEM

(***************************************************************************)
(* state.c                                                                 *)
(***************************************************************************)
PKS_UNTESTED == "PKS_UNTESTED"
PKS_VALID == "PKS_VALID"
PKS_INVALID == "PKS_INVALID"

\* A pointer to the latest struct becomes a pointer to an earlier one when
\* malloc() returns a new struct.
Age(p) == IF p = "cur" THEN "old" ELSE p

cb_accept_all(ok, error) == 1

cb(ok, error) ==
    IF error = X509_V_ERR_UNHANDLED_CRITICAL_EXTENSION THEN 1 ELSE ok

validation_prepare_no_init(malloc_ok, store_ok, x509_ok, sk_ok, restack_ok) ==
    /\ st # "live"
    /\ prev' = Stacks
    /\ UNCHANGED <<nalloc, destroyed>>
    /\ IF ~malloc_ok
       THEN /\ last' = Call("prepare", 0, 0, -ENOMEM, FALSE)
            /\ UNCHANGED <<st, tlocal, out, verify_cb, trusted, rsrcs,
                           pubkey_state, npush, npop>>
       ELSE IF ~store_ok
       THEN /\ st' = "freed"
            /\ tlocal' = Age(tlocal)
            /\ out' = Age(out)
            /\ last' = Call("prepare", 0, 0, state_store_err, TRUE)
            /\ UNCHANGED <<verify_cb, trusted, rsrcs, pubkey_state, npush, npop>>
       ELSE IF ~x509_ok \/ ~sk_ok \/ ~restack_ok
       THEN /\ st' = "freed"
            /\ tlocal' = "cur"
            /\ out' = Age(out)
            /\ last' = Call("prepare", 0, 0,
                            IF ~x509_ok \/ ~sk_ok THEN crypto_err ELSE -ENOMEM,
                            ~x509_ok \/ ~sk_ok)
            /\ UNCHANGED <<verify_cb, trusted, rsrcs, pubkey_state, npush, npop>>
       ELSE /\ st' = "live"
            /\ tlocal' = "cur"
            /\ out' = "cur"
            /\ verify_cb' = TRUE
            /\ trusted' = <<>>
            /\ rsrcs' = <<>>
            /\ npush' = 0
            /\ npop' = 0
            /\ last' = Call("prepare", 0, 0, 0, FALSE)
            /\ UNCHANGED pubkey_state

validation_prepare(malloc_ok, store_ok, x509_ok, sk_ok, restack_ok) ==
    /\ st # "live"
    /\ prev' = Stacks
    /\ UNCHANGED <<nalloc, destroyed>>
    /\ IF ~malloc_ok
       THEN /\ last' = Call("prepare", 0, 0, -ENOMEM, FALSE)
            /\ UNCHANGED <<st, tlocal, out, verify_cb, trusted, rsrcs,
                           pubkey_state, npush, npop>>
       ELSE IF ~store_ok
       THEN \* abort1 before the slot was written
            /\ st' = "freed"
            /\ tlocal' = Age(tlocal)
            /\ out' = Age(out)
            /\ last' = Call("prepare", 0, 0, state_store_err, TRUE)
            /\ UNCHANGED <<verify_cb, trusted, rsrcs, pubkey_state, npush, npop>>
       ELSE IF ~x509_ok \/ ~sk_ok \/ ~restack_ok
       THEN \* abort1, abort2, abort3 after state_store(result)
            /\ st' = "freed"
            /\ tlocal' = "cur"
            /\ out' = Age(out)
            /\ last' = Call("prepare", 0, 0,
                            IF ~x509_ok \/ ~sk_ok THEN crypto_err ELSE -ENOMEM,
                            ~x509_ok \/ ~sk_ok)
            /\ UNCHANGED <<verify_cb, trusted, rsrcs, pubkey_state, npush, npop>>
       ELSE /\ st' = "live"
            /\ tlocal' = "cur"
            /\ out' = "cur"
            /\ verify_cb' = TRUE
            /\ trusted' = <<>>
            /\ rsrcs' = <<>>
            /\ pubkey_state' = PKS_UNTESTED
            /\ npush' = 0
            /\ npop' = 0
            /\ last' = Call("prepare", 0, 0, 0, FALSE)

validation_destroy_quiet ==
    /\ st = "live"
    /\ prev' = Stacks
    /\ last' = Call("destroy", Len(trusted), 0, 0, Len(trusted) > 1)
    /\ destroyed' = destroyed \cup {rsrcs[i].h : i \in 1..Len(rsrcs)}
    /\ trusted' = <<>>
    /\ rsrcs' = <<>>
    /\ st' = "freed"
    /\ verify_cb' = FALSE
    /\ UNCHANGED <<tlocal, out, pubkey_state, nalloc, npush, npop>>

validation_destroy ==
    /\ st = "live"
    /\ prev' = Stacks
    /\ LET cert_num == Len(trusted)
       IN last' = Call("destroy", cert_num, 0, 0, cert_num # 0)
    /\ destroyed' = destroyed \cup {rsrcs[i].h : i \in 1..Len(rsrcs)}
    /\ trusted' = <<>>
    /\ rsrcs' = <<>>
    /\ st' = "freed"
    /\ verify_cb' = FALSE
    /\ UNCHANGED <<tlocal, out, pubkey_state, nalloc, npush, npop>>

validation_pubkey_valid ==
    /\ st = "live"
    /\ prev' = Stacks
    /\ pubkey_state' = PKS_VALID
    /\ last' = Call("pubkey_valid", 0, 0, 0, FALSE)
    /\ UNCHANGED <<st, tlocal, out, verify_cb, trusted, rsrcs,
                   nalloc, destroyed, npush, npop>>

validation_pubkey_invalid ==
    /\ st = "live"
    /\ prev' = Stacks
    /\ pubkey_state' = PKS_INVALID
    /\ last' = Call("pubkey_invalid", 0, 0, 0, FALSE)
    /\ UNCHANGED <<st, tlocal, out, verify_cb, trusted, rsrcs,
                   nalloc, destroyed, npush, npop>>

\* resources_create() allocates the next handle.
NewResources(cert) ==
    [h |-> nalloc + 1, set |-> certificate_get_resources(cert).set]

validation_push_cert_no_ta_check(cert, is_ta, res_ok, sk_ok) ==
    /\ st = "live"
    /\ nalloc < MaxAlloc
    /\ prev' = Stacks
    /\ UNCHANGED <<st, tlocal, out, verify_cb, pubkey_state, npop>>
    /\ IF ~res_ok
       THEN /\ last' = Call("push", cert, B2I(is_ta), -ENOMEM, FALSE)
            /\ UNCHANGED <<trusted, rsrcs, nalloc, destroyed, npush>>
       ELSE LET resources == NewResources(cert)
                error == certificate_get_resources(cert).error
            IN  /\ nalloc' = resources.h
                /\ IF error # 0
                   THEN /\ destroyed' = destroyed \cup {resources.h}
                        /\ last' = Call("push", cert, B2I(is_ta), error, TRUE)
                        /\ UNCHANGED <<trusted, rsrcs, npush>>
                   ELSE IF ~sk_ok
                   THEN /\ destroyed' = destroyed \cup {resources.h}
                        /\ last' = Call("push", cert, B2I(is_ta), crypto_err, TRUE)
                        /\ UNCHANGED <<trusted, rsrcs, npush>>
                   ELSE /\ trusted' = Append(trusted, cert)
                        /\ rsrcs' = Append(rsrcs, resources)
                        /\ npush' = npush + 1
                        /\ last' = Call("push", cert, B2I(is_ta), 0, FALSE)
                        /\ UNCHANGED destroyed

validation_push_cert_rsrcs_first(cert, is_ta, res_ok, sk_ok) ==
    /\ st = "live"
    /\ nalloc < MaxAlloc
    /\ prev' = Stacks
    /\ UNCHANGED <<st, tlocal, out, verify_cb, pubkey_state, npop>>
    /\ IF ~res_ok
       THEN /\ last' = Call("push", cert, B2I(is_ta), -ENOMEM, FALSE)
            /\ UNCHANGED <<trusted, rsrcs, nalloc, destroyed, npush>>
       ELSE LET resources == NewResources(cert)
                error == certificate_get_resources(cert).error
            IN  /\ nalloc' = resources.h
                /\ IF error # 0
                   THEN /\ destroyed' = destroyed \cup {resources.h}
                        /\ last' = Call("push", cert, B2I(is_ta), error, TRUE)
                        /\ UNCHANGED <<trusted, rsrcs, npush>>
                   ELSE IF is_ta /\ resources_empty(resources)
                   THEN /\ last' = Call("push", cert, B2I(is_ta), pr_err, TRUE)
                        /\ UNCHANGED <<trusted, rsrcs, destroyed, npush>>
                   ELSE IF ~sk_ok
                   THEN /\ rsrcs' = Append(rsrcs, resources)
                        /\ last' = Call("push", cert, B2I(is_ta), crypto_err, TRUE)
                        /\ UNCHANGED <<trusted, destroyed, npush>>
                   ELSE /\ trusted' = Append(trusted, cert)
                        /\ rsrcs' = Append(rsrcs, resources)
                        /\ npush' = npush + 1
                        /\ last' = Call("push", cert, B2I(is_ta), 0, FALSE)
                        /\ UNCHANGED destroyed

\* res_ok: resources_create() returned an object; sk_ok: sk_X509_push()
\* returned a positive count.
validation_push_cert(cert, is_ta, res_ok, sk_ok) ==
    /\ st = "live"
    /\ nalloc < MaxAlloc
    /\ prev' = Stacks
    /\ UNCHANGED <<st, tlocal, out, verify_cb, pubkey_state, npop>>
    /\ IF ~res_ok
       THEN /\ last' = Call("push", cert, B2I(is_ta), -ENOMEM, FALSE)
            /\ UNCHANGED <<trusted, rsrcs, nalloc, destroyed, npush>>
       ELSE LET resources == NewResources(cert)
                error == certificate_get_resources(cert).error
            IN  /\ nalloc' = resources.h
                /\ IF error # 0
                   THEN \* goto fail
                        /\ destroyed' = destroyed \cup {resources.h}
                        /\ last' = Call("push", cert, B2I(is_ta), error, TRUE)
                        /\ UNCHANGED <<trusted, rsrcs, npush>>
                   ELSE IF is_ta /\ resources_empty(resources)
                   THEN \* return pr_err(...): resources is not destroyed
                        /\ last' = Call("push", cert, B2I(is_ta), pr_err, TRUE)
                        /\ UNCHANGED <<trusted, rsrcs, destroyed, npush>>
                   ELSE IF ~sk_ok
                   THEN \* goto fail
                        /\ destroyed' = destroyed \cup {resources.h}
                        /\ last' = Call("push", cert, B2I(is_ta), crypto_err, TRUE)
                        /\ UNCHANGED <<trusted, rsrcs, npush>>
                   ELSE /\ trusted' = Append(trusted, cert)
                        /\ rsrcs' = Append(rsrcs, resources)
                        /\ npush' = npush + 1
                        /\ last' = Call("push", cert, B2I(is_ta), 0, FALSE)
                        /\ UNCHANGED destroyed

validation_pop_cert_silent ==
    /\ st = "live"
    /\ prev' = Stacks
    /\ UNCHANGED <<st, tlocal, out, verify_cb, pubkey_state, nalloc, npush>>
    /\ IF trusted = <<>>
       THEN /\ last' = Call("pop", 0, 0, 0, FALSE)
            /\ UNCHANGED <<trusted, rsrcs, destroyed, npop>>
       ELSE /\ trusted' = Front(trusted)
            /\ IF rsrcs = <<>>
               THEN /\ last' = Call("pop", 0, 0, pr_crit, TRUE)
                    /\ UNCHANGED <<rsrcs, destroyed, npop>>
               ELSE /\ rsrcs' = Front(rsrcs)
                    /\ destroyed' = destroyed \cup {rsrcs[Len(rsrcs)].h}
                    /\ npop' = npop + 1
                    /\ last' = Call("pop", 0, 0, 0, FALSE)

validation_pop_cert_no_destroy ==
    /\ st = "live"
    /\ prev' = Stacks
    /\ UNCHANGED <<st, tlocal, out, verify_cb, pubkey_state, nalloc, npush>>
    /\ IF trusted = <<>>
       THEN /\ last' = Call("pop", 0, 0, pr_crit, TRUE)
            /\ UNCHANGED <<trusted, rsrcs, destroyed, npop>>
       ELSE /\ trusted' = Front(trusted)
            /\ IF rsrcs = <<>>
               THEN /\ last' = Call("pop", 0, 0, pr_crit, TRUE)
                    /\ UNCHANGED <<rsrcs, destroyed, npop>>
               ELSE /\ rsrcs' = Front(rsrcs)
                    /\ npop' = npop + 1
                    /\ last' = Call("pop", 0, 0, 0, FALSE)
                    /\ UNCHANGED destroyed

validation_pop_cert ==
    /\ st = "live"
    /\ prev' = Stacks
    /\ UNCHANGED <<st, tlocal, out, verify_cb, pubkey_state, nalloc, npush>>
    /\ IF trusted = <<>>
       THEN \* sk_X509_pop() returned NULL
            /\ last' = Call("pop", 0, 0, pr_crit, TRUE)
            /\ UNCHANGED <<trusted, rsrcs, destroyed, npop>>
       ELSE /\ trusted' = Front(trusted)
            /\ IF rsrcs = <<>>
               THEN \* restack_pop() returned NULL
                    /\ last' = Call("pop", 0, 0, pr_crit, TRUE)
                    /\ UNCHANGED <<rsrcs, destroyed, npop>>
               ELSE /\ rsrcs' = Front(rsrcs)
                    /\ destroyed' = destroyed \cup {rsrcs[Len(rsrcs)].h}
                    /\ npop' = npop + 1
                    /\ last' = Call("pop", 0, 0, 0, FALSE)

validation_peek_cert_bottom ==
    /\ st = "live"
    /\ prev' = Stacks
    /\ last' = Call("peek_cert", 0, 0,
                    IF Len(trusted) >= 1 THEN trusted[1] ELSE NULL, FALSE)
    /\ UNCHANGED <<st, tlocal, out, verify_cb, trusted, rsrcs, pubkey_state,
                   nalloc, destroyed, npush, npop>>

\* sk_X509_value(sk, i) is NULL when i is out of range.
validation_peek_cert ==
    /\ st = "live"
    /\ prev' = Stacks
    /\ LET i == Len(trusted) - 1
       IN last' = Call("peek_cert", 0, 0,
                       IF i >= 0 THEN trusted[i + 1] ELSE NULL, FALSE)
    /\ UNCHANGED <<st, tlocal, out, verify_cb, trusted, rsrcs, pubkey_state,
                   nalloc, destroyed, npush, npop>>

\* restack_peek() returns the head of the list, NULL when it is empty; the
\* result is the handle of the resources object.
validation_peek_resource ==
    /\ st = "live"
    /\ prev' = Stacks
    /\ last' = Call("peek_resource", 0, 0,
                    IF rsrcs = <<>> THEN NULL ELSE rsrcs[Len(rsrcs)].h, FALSE)
    /\ UNCHANGED <<st, tlocal, out, verify_cb, trusted, rsrcs, pubkey_state,
                   nalloc, destroyed, npush, npop>>

\* The library calls the registered callback while it verifies a certificate
\* against the store of the live state.
verify_callback(ok, error) ==
    /\ st = "live"
    /\ verify_cb
    /\ prev' = Stacks
    /\ last' = Call("cb", ok, error, cb(ok, error), FALSE)
    /\ UNCHANGED <<st, tlocal, out, verify_cb, trusted, rsrcs, pubkey_state,
                   nalloc, destroyed, npush, npop>>

InitValidation ==
    /\ st = "none"
    /\ tlocal = "null"
    /\ out = "null"
    /\ verify_cb = FALSE
    /\ trusted = <<>>
    /\ rsrcs = <<>>
    /\ pubkey_state = PKS_UNTESTED
    /\ nalloc = 0
    /\ destroyed = {}
    /\ npush = 0
    /\ npop = 0
    /\ last = Call("none", 0, 0, 0, FALSE)
    /\ prev = [trusted |-> <<>>, rsrcs |-> <<>>]

Prepare ==
    /\ \E malloc_ok, store_ok, x509_ok, sk_ok, restack_ok \in BOOLEAN :
          validation_prepare(malloc_ok, store_ok, x509_ok, sk_ok, restack_ok)
    /\ UNCHANGED <<nvars, h>>

PushCert ==
    /\ \E cert \in Certs, is_ta, res_ok, sk_ok \in BOOLEAN :
          validation_push_cert(cert, is_ta, res_ok, sk_ok)
    /\ UNCHANGED <<nvars, h>>

PopCert == validation_pop_cert /\ UNCHANGED <<nvars, h>>

PeekCert == validation_peek_cert /\ UNCHANGED <<nvars, h>>

PeekResource == validation_peek_resource /\ UNCHANGED <<nvars, h>>

PubkeyValid == validation_pubkey_valid /\ UNCHANGED <<nvars, h>>

PubkeyInvalid == validation_pubkey_invalid /\ UNCHANGED <<nvars, h>>

Destroy == validation_destroy /\ UNCHANGED <<nvars, h>>

VerifyCb ==
    /\ \E ok \in {0, 1}, error \in 0..MaxVerifyError : verify_callback(ok, error)
    /\ UNCHANGED <<nvars, h>>

NextValidation ==
    \/ Prepare
    \/ PushCert
    \/ PopCert
    \/ PeekCert
    \/ PeekResource
    \/ PubkeyValid
    \/ PubkeyInvalid
    \/ Destroy

NextCallback ==
    \/ Prepare
    \/ PubkeyValid
    \/ PubkeyInvalid
    \/ VerifyCb
    \/ Destroy

(***************************************************************************)
(* The client registry and the database, as the notifier sees them.        *)
(***************************************************************************)
Clients == 1..MaxClients

\* A client's socket and negotiated protocol version.
ClientFd(c) == 10 + c
ClientVersion(c) == c % 2

\* A client connects or leaves. The registry's lock keeps both out while an
\* iteration runs.
ClientConnect(c) ==
    /\ npc # "iter"
    /\ c \notin clients
    /\ clients' = clients \cup {c}
    /\ UNCHANGED <<db_ready, db_serial, committed, npc, serial, todo, snap, sent, nret, nerror>>

ClientLeave(c) ==
    /\ npc # "iter"
    /\ c \in clients
    /\ clients' = clients \ {c}
    /\ UNCHANGED <<db_ready, db_serial, committed, npc, serial, todo, snap, sent, nret, nerror>>

\* A validation cycle commits a new snapshot: the serial advances by one
\* (it stays far below 2^32 here, so it never wraps).
Commit ==
    /\ db_serial < MaxSerial
    /\ db_serial' = db_serial + 1
    /\ db_ready' = TRUE
    /\ committed' = committed \cup {db_serial + 1}
    /\ UNCHANGED <<clients, npc, serial, todo, snap, sent, nret, nerror>>

\* The last serial, or an error while the database holds no snapshot.
get_last_serial_number ==
    IF db_ready
    THEN [error |-> 0, serial |-> db_serial]
    ELSE [error |-> -EAGAIN, serial |-> 0]

\* The orders in which an iteration may visit the set S.
Orders(S) ==
    {q \in [1..Cardinality(S) -> S] : \A i, j \in 1..Cardinality(S) : q[i] = q[j] => i = j}

(***************************************************************************)
(* notify.c                                                                *)
(***************************************************************************)
send_notify_propagate(client, arg, send_error) ==
    [pdu |-> [client |-> client, fd |-> ClientFd(client),
              version |-> ClientVersion(client), serial |-> arg,
              error |-> send_error],
     ret |-> send_error]

\* send_error: what send_serial_notify_pdu() returned for this client.
send_notify(client, arg, send_error) ==
    [pdu |-> [client |-> client, fd |-> ClientFd(client),
              version |-> ClientVersion(client), serial |-> arg,
              error |-> send_error],
     ret |-> 0]

notify_clients_next_serial ==
    /\ npc = "idle"
    /\ sent' = <<>>
    /\ todo' = <<>>
    /\ snap' = {}
    /\ LET r == get_last_serial_number
       IN /\ nerror' = r.error
          /\ IF r.error # 0
             THEN /\ npc' = "done"
                  /\ nret' = r.error
                  /\ UNCHANGED serial
             ELSE /\ npc' = "read"
                  /\ serial' = r.serial + 1
                  /\ UNCHANGED nret
    /\ UNCHANGED <<clients, db_ready, db_serial, committed>>

notify_clients_ignore_error ==
    /\ npc = "idle"
    /\ sent' = <<>>
    /\ todo' = <<>>
    /\ snap' = {}
    /\ LET r == get_last_serial_number
       IN /\ nerror' = r.error
          /\ npc' = "read"
          /\ serial' = r.serial
          /\ UNCHANGED nret
    /\ UNCHANGED <<clients, db_ready, db_serial, committed>>

\* notify_clients, up to the call of clients_foreach.
notify_clients ==
    /\ npc = "idle"
    /\ sent' = <<>>
    /\ todo' = <<>>
    /\ snap' = {}
    /\ LET r == get_last_serial_number
       IN /\ nerror' = r.error
          /\ IF r.error # 0
             THEN /\ npc' = "done"
                  /\ nret' = r.error
                  /\ UNCHANGED serial
             ELSE /\ npc' = "read"
                  /\ serial' = r.serial
                  /\ UNCHANGED nret
    /\ UNCHANGED <<clients, db_ready, db_serial, committed>>

\* clients_foreach takes the registry's lock and fixes its order.
clients_foreach_begin ==
    /\ npc = "read"
    /\ npc' = "iter"
    /\ snap' = clients
    /\ todo' \in Orders(clients)
    /\ UNCHANGED <<clients, db_ready, db_serial, committed, serial, sent, nret, nerror>>

\* clients_foreach calls the callback on the next client and stops at the
\* first callback that does not return 0.
clients_foreach_step(send_error) ==
    /\ npc = "iter"
    /\ todo # <<>>
    /\ LET r == send_notify(Head(todo), serial, send_error)
       IN /\ sent' = Append(sent, r.pdu)
          /\ IF r.ret # 0
             THEN /\ npc' = "done"
                  /\ nret' = r.ret
                  /\ UNCHANGED todo
             ELSE /\ todo' = Tail(todo)
                  /\ UNCHANGED <<npc, nret>>
    /\ UNCHANGED <<clients, db_ready, db_serial, committed, serial, snap, nerror>>

\* clients_foreach has visited every client: it releases the lock and
\* notify_clients returns its result.
clients_foreach_end ==
    /\ npc = "iter"
    /\ todo = <<>>
    /\ npc' = "done"
    /\ nret' = 0
    /\ UNCHANGED <<clients, db_ready, db_serial, committed, serial, todo, snap, sent,
                   nerror>>

\* The caller takes the result; the next commit may notify again.
notify_return ==
    /\ npc = "done"
    /\ npc' = "idle"
    /\ UNCHANGED <<clients, db_ready, db_serial, committed, serial, todo, snap, sent, nret, nerror>>

InitNotify ==
    /\ clients = {}
    /\ db_ready = FALSE
    /\ db_serial = 0
    /\ committed = {}
    /\ npc = "idle"
    /\ serial = 0
    /\ todo = <<>>
    /\ snap = {}
    /\ sent = <<>>
    /\ nret = 0
    /\ nerror = 0

Connect == (\E c \in Clients : ClientConnect(c)) /\ UNCHANGED <<vvars, h>>

Leave == (\E c \in Clients : ClientLeave(c)) /\ UNCHANGED <<vvars, h>>

DbCommit == Commit /\ UNCHANGED <<vvars, h>>

NotifyClients == notify_clients /\ UNCHANGED <<vvars, h>>

ForeachBegin == clients_foreach_begin /\ UNCHANGED <<vvars, h>>

ForeachStep ==
    /\ \E send_error \in {0, -EINVAL} : clients_foreach_step(send_error)
    /\ UNCHANGED <<vvars, h>>

ForeachEnd == clients_foreach_end /\ UNCHANGED <<vvars, h>>

NotifyReturn == notify_return /\ UNCHANGED <<vvars, h>>

NextNotify ==
    \/ Connect
    \/ Leave
    \/ DbCommit
    \/ NotifyClients
    \/ ForeachBegin
    \/ ForeachStep
    \/ ForeachEnd
    \/ NotifyReturn

(***************************************************************************)
(* The message digest and the file, as hash.c uses them.                   *)
(***************************************************************************)
Bytes == {0, 1}

\* Every sequence over S of length 0..n.
SeqsUpTo(S, n) == UNION {[1..k -> S] : k \in 0..n}

\* A small running checksum stands for the digest: the context holds two
\* sums, each update folds the bytes it is given into them in order, and the
\* final digest is one byte per sum.
EVP_DigestInit_ex == <<0, 0>>

MdByte(md, x) ==
    LET a == (md[1] + x + 1) % Cardinality(Bytes)
    IN  <<a, (md[2] + a + x) % Cardinality(Bytes)>>

RECURSIVE EVP_DigestUpdate(_, _)
EVP_DigestUpdate(md, data) ==
    IF data = <<>> THEN md
    ELSE EVP_DigestUpdate(MdByte(md, Head(data)), Tail(data))

EVP_DigestFinal_ex(md) == <<md[2], md[1]>>

\* The digest of a whole content, computed in one piece.
Digest(content) == EVP_DigestFinal_ex(EVP_DigestUpdate(EVP_DigestInit_ex, content))

\* get_md: EVP_get_digestbyname knows "sha256" only.
get_md(algorithm) == IF algorithm = "sha256" THEN 0 ELSE -EINVAL

pr_enomem == -ENOMEM
ENOENT == 2

Min(a, b) == IF a < b THEN a ELSE b

(***************************************************************************)
(* crypto/hash.c                                                           *)
(***************************************************************************)
memcmp(a, b, n) == IF \A i \in 1..n : a[i] = b[i] THEN 0 ELSE 1

hash_matches_prefix(expected, actual) ==
    /\ Len(expected) <= Len(actual)
    /\ memcmp(expected, actual, Len(expected)) = 0

hash_matches(expected, actual) ==
    /\ Len(expected) = Len(actual)
    /\ memcmp(expected, actual, Len(expected)) = 0

HashIdle ==
    [pc |-> "idle", algorithm |-> "sha256", expected |-> <<>>, bits_unused |-> 0,
     exists |-> FALSE, content |-> <<>>, blksize |-> 0, pos |-> 0, eof |-> FALSE,
     open_calls |-> 0, opens |-> 0, closes |-> 0, buffer |-> FALSE, ctx |-> FALSE,
     md |-> <<0, 0>>, fed |-> <<>>, actual |-> <<>>, error |-> 0, ret |-> 0,
     reads |-> 0, injected |-> {}]

\* hash_validate_file is called: the unused bits are checked first.
hash_validate_file(algorithm, expected, bits_unused) ==
    /\ h.pc = "idle"
    /\ h' = [HashIdle EXCEPT !.algorithm = algorithm, !.expected = expected,
                             !.bits_unused = bits_unused,
                             !.pc = IF bits_unused # 0 THEN "done" ELSE "get_md",
                             !.ret = IF bits_unused # 0 THEN pr_err ELSE 0]

hash_file_get_md ==
    /\ h.pc = "get_md"
    /\ LET error == get_md(h.algorithm)
       IN h' = [h EXCEPT !.error = error,
                         !.pc = IF error # 0 THEN "return" ELSE "file_open"]

\* file_open: the path holds a file with this content and block size, or
\* holds nothing.
hash_file_open(exists, content, blksize) ==
    /\ h.pc = "file_open"
    /\ IF ~exists
       THEN h' = [h EXCEPT !.open_calls = @ + 1, !.error = ENOENT, !.pc = "return"]
       ELSE h' = [h EXCEPT !.open_calls = @ + 1,
                           !.error = 0, !.exists = TRUE, !.content = content,
                           !.blksize = blksize, !.pos = 0, !.eof = FALSE,
                           !.opens = @ + 1, !.pc = "malloc"]

hash_file_malloc_return(ok) ==
    /\ h.pc = "malloc"
    /\ IF ok
       THEN h' = [h EXCEPT !.buffer = TRUE, !.pc = "ctx_new"]
       ELSE h' = [h EXCEPT !.error = pr_enomem, !.pc = "return",
                           !.injected = @ \cup {"malloc"}]

hash_file_malloc(ok) ==
    /\ h.pc = "malloc"
    /\ IF ok
       THEN h' = [h EXCEPT !.buffer = TRUE, !.pc = "ctx_new"]
       ELSE h' = [h EXCEPT !.error = pr_enomem, !.pc = "end1",
                           !.injected = @ \cup {"malloc"}]

hash_file_ctx_new(ok) ==
    /\ h.pc = "ctx_new"
    /\ IF ok
       THEN h' = [h EXCEPT !.ctx = TRUE, !.pc = "digest_init"]
       ELSE h' = [h EXCEPT !.error = pr_enomem, !.pc = "end2",
                           !.injected = @ \cup {"ctx_new"}]

hash_file_digest_init(ok) ==
    /\ h.pc = "digest_init"
    /\ IF ok
       THEN h' = [h EXCEPT !.md = EVP_DigestInit_ex, !.pc = "read"]
       ELSE h' = [h EXCEPT !.error = crypto_err, !.pc = "end3",
                           !.injected = @ \cup {"digest_init"}]

hash_file_read_retry(read_error, update_ok) ==
    /\ h.pc = "read"
    /\ LET left == Len(h.content) - h.pos
           consumed == Min(h.blksize, left)
           chunk == SubSeq(h.content, h.pos + 1, h.pos + consumed)
           eof == h.blksize > left
       IN IF read_error
          THEN IF "read" \in h.injected
               THEN h' = [h EXCEPT !.reads = @ + 1, !.error = 1, !.pc = "end3"]
               ELSE h' = [h EXCEPT !.reads = @ + 1, !.error = 1,
                                   !.injected = @ \cup {"read"}]
          ELSE IF ~update_ok
          THEN h' = [h EXCEPT !.reads = @ + 1, !.pos = @ + consumed, !.eof = eof,
                              !.error = crypto_err, !.pc = "end3",
                              !.injected = @ \cup {"digest_update"}]
          ELSE h' = [h EXCEPT !.reads = @ + 1, !.pos = @ + consumed, !.eof = eof,
                              !.error = 0,
                              !.md = EVP_DigestUpdate(@, chunk),
                              !.fed = @ \o chunk,
                              !.pc = IF eof THEN "digest_final" ELSE "read"]

hash_file_read_full_blocks(read_error, update_ok) ==
    /\ h.pc = "read"
    /\ LET left == Len(h.content) - h.pos
           consumed == Min(h.blksize, left)
           chunk == IF consumed = h.blksize
                    THEN SubSeq(h.content, h.pos + 1, h.pos + consumed)
                    ELSE <<>>
           eof == h.blksize > left
       IN IF read_error
          THEN h' = [h EXCEPT !.reads = @ + 1, !.error = 1, !.pc = "end3",
                              !.injected = @ \cup {"read"}]
          ELSE IF ~update_ok
          THEN h' = [h EXCEPT !.reads = @ + 1, !.pos = @ + consumed, !.eof = eof,
                              !.error = crypto_err, !.pc = "end3",
                              !.injected = @ \cup {"digest_update"}]
          ELSE h' = [h EXCEPT !.reads = @ + 1, !.pos = @ + consumed, !.eof = eof,
                              !.error = 0,
                              !.md = EVP_DigestUpdate(@, chunk),
                              !.fed = @ \o chunk,
                              !.pc = IF eof THEN "digest_final" ELSE "read"]

\* The loop without its feof test: only an error leaves it. The count of
\* reads wraps so that the endless loop is a cycle of finitely many states.
hash_file_read_no_eof(read_error, update_ok) ==
    /\ h.pc = "read"
    /\ LET left == Len(h.content) - h.pos
           consumed == Min(h.blksize, left)
           chunk == SubSeq(h.content, h.pos + 1, h.pos + consumed)
           again == IF h.reads > MaxFileLen + 1 THEN MaxFileLen + 1
                    ELSE h.reads + 1
       IN IF read_error
          THEN h' = [h EXCEPT !.reads = again, !.error = 1, !.pc = "end3",
                              !.injected = @ \cup {"read"}]
          ELSE IF ~update_ok
          THEN h' = [h EXCEPT !.reads = again, !.pos = @ + consumed,
                              !.error = crypto_err, !.pc = "end3",
                              !.injected = @ \cup {"digest_update"}]
          ELSE h' = [h EXCEPT !.reads = again, !.pos = @ + consumed,
                              !.error = 0,
                              !.md = EVP_DigestUpdate(@, chunk),
                              !.fed = @ \o chunk]

\* One turn of the do-while loop: fread, ferror, EVP_DigestUpdate, feof.
\* fread sets the end-of-file mark when it was asked for more bytes than the
\* file had left.
hash_file_read(read_error, update_ok) ==
    /\ h.pc = "read"
    /\ LET left == Len(h.content) - h.pos
           consumed == Min(h.blksize, left)
           chunk == SubSeq(h.content, h.pos + 1, h.pos + consumed)
           eof == h.blksize > left
       IN IF read_error
          THEN h' = [h EXCEPT !.reads = @ + 1, !.error = 1, !.pc = "end3",
                              !.injected = @ \cup {"read"}]
          ELSE IF ~update_ok
          THEN h' = [h EXCEPT !.reads = @ + 1, !.pos = @ + consumed, !.eof = eof,
                              !.error = crypto_err, !.pc = "end3",
                              !.injected = @ \cup {"digest_update"}]
          ELSE h' = [h EXCEPT !.reads = @ + 1, !.pos = @ + consumed, !.eof = eof,
                              !.error = 0,
                              !.md = EVP_DigestUpdate(@, chunk),
                              !.fed = @ \o chunk,
                              !.pc = IF eof THEN "digest_final" ELSE "read"]

hash_file_digest_final(ok) ==
    /\ h.pc = "digest_final"
    /\ IF ok
       THEN h' = [h EXCEPT !.actual = EVP_DigestFinal_ex(h.md), !.pc = "end3"]
       ELSE h' = [h EXCEPT !.error = crypto_err, !.pc = "end3",
                           !.injected = @ \cup {"digest_final"}]

\* end3: EVP_MD_CTX_free(ctx)
hash_file_end3 ==
    /\ h.pc = "end3"
    /\ h' = [h EXCEPT !.ctx = FALSE, !.pc = "end2"]

\* end2: free(buffer)
hash_file_end2 ==
    /\ h.pc = "end2"
    /\ h' = [h EXCEPT !.buffer = FALSE, !.pc = "end1"]

\* end1: file_close(file); return error
hash_file_end1 ==
    /\ h.pc = "end1"
    /\ h' = [h EXCEPT !.closes = @ + 1, !.pc = "return"]

\* hash_file has returned into hash_validate_file.
hash_validate_file_result ==
    /\ h.pc = "return"
    /\ h' = [h EXCEPT !.pc = "done",
                      !.ret = IF h.error # 0 THEN h.error
                              ELSE IF ~hash_matches(h.expected, h.actual) THEN pr_err
                              ELSE 0]

\* The caller takes the result.
hash_validate_file_return ==
    /\ h.pc = "done"
    /\ h' = HashIdle

InitHash == h = HashIdle

Files == SeqsUpTo(Bytes, MaxFileLen)

HashValidateFile ==
    /\ \E algorithm \in {"sha256", "md-unknown"},
          expected \in SeqsUpTo(Bytes, MaxExpectedLen),
          bits_unused \in {0, 1} :
          hash_validate_file(algorithm, expected, bits_unused)
    /\ UNCHANGED <<vvars, nvars>>

HashGetMd == hash_file_get_md /\ UNCHANGED <<vvars, nvars>>

HashFileOpen ==
    /\ \/ hash_file_open(FALSE, <<>>, 0)
       \/ \E content \in Files, blksize \in 1..MaxBlkSize :
             hash_file_open(TRUE, content, blksize)
    /\ UNCHANGED <<vvars, nvars>>

HashMalloc == (\E ok \in BOOLEAN : hash_file_malloc(ok)) /\ UNCHANGED <<vvars, nvars>>

HashCtxNew == (\E ok \in BOOLEAN : hash_file_ctx_new(ok)) /\ UNCHANGED <<vvars, nvars>>

HashDigestInit ==
    (\E ok \in BOOLEAN : hash_file_digest_init(ok)) /\ UNCHANGED <<vvars, nvars>>

HashRead ==
    /\ \/ hash_file_read(TRUE, TRUE)
       \/ \E update_ok \in BOOLEAN : hash_file_read(FALSE, update_ok)
    /\ UNCHANGED <<vvars, nvars>>

HashDigestFinal ==
    (\E ok \in BOOLEAN : hash_file_digest_final(ok)) /\ UNCHANGED <<vvars, nvars>>

HashEnd3 == hash_file_end3 /\ UNCHANGED <<vvars, nvars>>

HashEnd2 == hash_file_end2 /\ UNCHANGED <<vvars, nvars>>

HashEnd1 == hash_file_end1 /\ UNCHANGED <<vvars, nvars>>

HashResult == hash_validate_file_result /\ UNCHANGED <<vvars, nvars>>

HashReturn == hash_validate_file_return /\ UNCHANGED <<vvars, nvars>>

NextHash ==
    \/ HashValidateFile
    \/ HashGetMd
    \/ HashFileOpen
    \/ HashMalloc
    \/ HashCtxNew
    \/ HashDigestInit
    \/ HashRead
    \/ HashDigestFinal
    \/ HashEnd3
    \/ HashEnd2
    \/ HashEnd1
    \/ HashResult
    \/ HashReturn

(***************************************************************************)
(* Specifications.                                                         *)
(***************************************************************************)
Init == InitValidation /\ InitNotify /\ InitHash

SpecValidation == Init /\ [][NextValidation]_vars

SpecCallback == Init /\ [][NextCallback]_vars

SpecNotify == Init /\ [][NextNotify]_vars

SpecHash == Init /\ [][NextHash]_vars

\* hash_file is sequential code: whenever it has a next statement, it
\* executes it.
SpecHashLive == Init /\ [][NextHash]_vars /\ WF_vars(NextHash)

(***************************************************************************)
(* Properties of the notifier.                                             *)
(***************************************************************************)
\* Send attempts made to client c in this broadcast.
Attempts(c) == Cardinality({i \in 1..Len(sent) : sent[i].client = c})

\* C1: a failed send never interrupts the broadcast. While the iteration
\* runs the registry is the one it started with and no client was tried
\* twice; when notify_clients has returned after reading a serial, every
\* client registered at the start got exactly one send attempt, whichever
\* sends failed, and nobody else got one.
C1_BroadcastCompletes ==
    /\ npc = "iter" =>
          /\ clients = snap
          /\ \A c \in Clients : Attempts(c) <= 1
    /\ (npc = "done" /\ db_ready) =>
          /\ \A c \in snap : Attempts(c) = 1
          /\ \A c \in Clients \ snap : Attempts(c) = 0
          /\ Len(sent) = Cardinality(snap)

\* Two clients were registered, the send to the first one failed, and the
\* second one still got its attempt.
C1_Witness ==
    /\ npc = "done"
    /\ Cardinality(snap) = 2
    /\ Len(sent) = 2
    /\ sent[1].error # 0
    /\ clients = snap

\* C10: every Serial Notify PDU of a broadcast carries the serial that
\* notify_clients read at its start, and that serial was committed before
\* the PDU was sent: it is a committed serial, not above the database's
\* last serial, under every interleaving with commits.
C10_NotifyAfterCommit ==
    \A i \in 1..Len(sent) :
        /\ sent[i].serial = serial
        /\ sent[i].serial \in committed
        /\ sent[i].serial <= db_serial

\* A commit completed while the broadcast was running: the PDU sent carries
\* the older, committed serial.
C10_Witness ==
    /\ npc = "iter"
    /\ Len(sent) >= 1
    /\ sent[1].serial = 1
    /\ db_serial = 2

\* C15: when get_last_serial_number fails, notify_clients returns that error
\* and attempts no send; when it succeeds, notify_clients returns 0 whichever
\* sends failed, and the iteration only runs after a successful read.
C15_NotifyResult ==
    /\ npc \in {"read", "iter"} => nerror = 0
    /\ npc = "done" =>
          /\ nerror # 0 => (nret = nerror /\ sent = <<>>)
          /\ nerror = 0 => nret = 0

\* Clients were registered, the database held no snapshot, and
\* notify_clients returned the error without a send.
C15_Witness ==
    /\ npc = "done"
    /\ nerror # 0
    /\ nret = nerror
    /\ Cardinality(clients) = 2
    /\ sent = <<>>


(***************************************************************************)
(* Properties of the validation state.                                     *)
(***************************************************************************)
\* C2: the certificate stack and the resource stack have the same size, and
\* the resource set at each depth is the one computed from the certificate
\* at that depth.
C2_StacksParallel ==
    /\ Len(trusted) = Len(rsrcs)
    /\ \A i \in 1..Len(trusted) :
          /\ certificate_get_resources(trusted[i]).error = 0
          /\ rsrcs[i].set = certificate_get_resources(trusted[i]).set

\* A push has just failed on a chain of two different certificates.
C2_Witness ==
    /\ Len(trusted) = 2
    /\ trusted[1] # trusted[2]
    /\ last.op = "push"
    /\ last.ret # 0

\* C3: a push of a Trust Anchor whose resource set is empty fails; a push
\* that returns an error leaves both stacks as they were; a push that
\* returns 0 has put exactly the certificate on one stack and one resources
\* object on the other.
C3_PushAllOrNothing ==
    last.op = "push" =>
        /\ (last.b = 1 /\ certificate_get_resources(last.a).set = {}) => last.ret # 0
        /\ last.ret # 0 => Stacks = prev
        /\ last.ret = 0 =>
              /\ Len(trusted) = Len(prev.trusted) + 1
              /\ Len(rsrcs) = Len(prev.rsrcs) + 1
              /\ Front(trusted) = prev.trusted
              /\ Front(rsrcs) = prev.rsrcs
              /\ trusted[Len(trusted)] = last.a

\* The Trust Anchor push of certificate 0 (no resources) has failed on a
\* chain that already held a certificate.
C3_Witness ==
    /\ last.op = "push"
    /\ last.a = 0
    /\ last.b = 1
    /\ last.ret # 0
    /\ Len(trusted) = 1
    /\ nalloc = 2

\* C4: a pop on an empty certificate chain reports a critical error and
\* leaves both stacks empty.
C4_PopEmptyFails ==
    (last.op = "pop" /\ prev.trusted = <<>>) =>
        /\ last.ret # 0
        /\ last.logged
        /\ trusted = <<>>
        /\ rsrcs = <<>>
        /\ Stacks = prev

\* A pop was called on an empty chain, after an earlier push and pop.
C4_Witness ==
    /\ last.op = "pop"
    /\ prev.trusted = <<>>
    /\ last.ret # 0
    /\ npush = 1
    /\ npop = 1

\* C5: a pop that comes right after a successful push returns 0, restores
\* both stacks to what they were before the push, and destroys the resources
\* object it removed.
C5_PopUndoesPush ==
    [][(last.op = "push" /\ last.ret = 0 /\ last'.op = "pop") =>
          /\ last'.ret = 0
          /\ trusted' = prev.trusted
          /\ rsrcs' = prev.rsrcs
          /\ rsrcs[Len(rsrcs)].h \notin destroyed
          /\ rsrcs[Len(rsrcs)].h \in destroyed']_vars

\* The second certificate was pushed and popped again: the chain holds the
\* first one alone and the second resources object is destroyed.
C5_Witness ==
    /\ last.op = "pop"
    /\ last.ret = 0
    /\ nalloc = 2
    /\ npush = 2
    /\ npop = 1
    /\ Len(trusted) = 1
    /\ destroyed = {2}

\* C6: teardown reports an error exactly when the chain still holds a
\* certificate, that is, when more pushes than pops succeeded.
C6_DestroyReportsMissingPop ==
    last.op = "destroy" =>
        /\ last.logged <=> Len(prev.trusted) >= 1
        /\ last.logged <=> npush > npop
        /\ last.a = Len(prev.trusted)

\* A state was destroyed with one certificate left after two pushes and a pop.
C6_Witness ==
    /\ last.op = "destroy"
    /\ last.logged
    /\ npush = 2
    /\ npop = 1

\* C7: the callback accepts when the error is the unhandled critical
\* extension, whatever ok is, and returns ok for every other error.
C7_CallbackIgnoresOneError ==
    last.op = "cb" =>
        /\ last.b = X509_V_ERR_UNHANDLED_CRITICAL_EXTENSION => last.ret = 1
        /\ last.b # X509_V_ERR_UNHANDLED_CRITICAL_EXTENSION => last.ret = last.a

\* The registered callback was called with ok = 0 for another error and
\* kept the verdict.
C7_Witness ==
    /\ last.op = "cb"
    /\ verify_cb
    /\ last.a = 0
    /\ last.b = X509_V_ERR_UNHANDLED_CRITICAL_EXTENSION + 1
    /\ last.ret = 0

\* The resources objects on the resource stack.
OnStack == {rsrcs[i].h : i \in 1..Len(rsrcs)}

\* C11: every resources object that validation_push_cert allocated has
\* exactly one owner once the call has returned: it is on the resource
\* stack, or it has been destroyed, and never both.
C11_EveryResourceOwned ==
    \A hd \in 1..nalloc : (hd \in OnStack) # (hd \in destroyed)


\* C13: the peek operations read the top of the stacks and change nothing.
\* On a chain that holds a certificate, validation_peek_cert returns the
\* certificate pushed last and not yet popped, and validation_peek_resource
\* returns the resources object pushed with it, which holds that
\* certificate's resources; on an empty chain validation_peek_cert returns
\* NULL.
C13_PeekReadsTop ==
    /\ last.op = "peek_cert" =>
          /\ Stacks = prev
          /\ trusted = <<>> => last.ret = NULL
          /\ trusted # <<>> => last.ret = trusted[Len(trusted)]
    /\ (last.op = "peek_resource" /\ trusted # <<>>) =>
          /\ Stacks = prev
          /\ last.ret = rsrcs[Len(rsrcs)].h
          /\ \A hd \in OnStack : hd <= last.ret
          /\ rsrcs[Len(rsrcs)].set = certificate_get_resources(trusted[Len(trusted)]).set


\* After two pushes, a pop and a third push, the peek returned the third
\* certificate, which differs from the one below it.
C13_Witness ==
    /\ last.op = "peek_cert"
    /\ Len(trusted) = 2
    /\ npop = 1
    /\ trusted[1] # trusted[2]
    /\ last.ret = trusted[2]


\* C14: the public-key status is Untested when validation_prepare has
\* succeeded, and on a state it changes only in validation_pubkey_valid (to
\* Valid) and validation_pubkey_invalid (to Invalid): every push, pop, peek
\* and teardown, failing or not, and every failing prepare leaves it as it
\* was.
C14_PubkeyStateFrame ==
    [][/\ (last'.op = "prepare" /\ last'.ret = 0) => pubkey_state' = PKS_UNTESTED
       /\ last'.op = "pubkey_valid" => pubkey_state' = PKS_VALID
       /\ last'.op = "pubkey_invalid" => pubkey_state' = PKS_INVALID
       /\ (~(last'.op = "prepare" /\ last'.ret = 0)
             /\ last'.op \notin {"pubkey_valid", "pubkey_invalid"})
          => pubkey_state' = pubkey_state]_vars

\* The status was set to Invalid and a push that failed afterwards on a
\* non-empty chain left it so.
C14_Witness ==
    /\ pubkey_state = PKS_INVALID
    /\ last.op = "push"
    /\ last.ret # 0
    /\ Len(trusted) = 1


\* C16: when validation_prepare fails after state_store(result) succeeded
\* (X509_STORE_new, sk_X509_new_null or restack_create failed), the
\* thread-local slot does not point at the struct that was just freed, and
\* *out was not written.
C16_NoDanglingThreadLocal ==
    [][\A x509_ok, sk_ok, restack_ok \in BOOLEAN :
          (/\ ~(x509_ok /\ sk_ok /\ restack_ok)
           /\ validation_prepare(TRUE, TRUE, x509_ok, sk_ok, restack_ok))
          => /\ ~(tlocal' = "cur" /\ st' = "freed")
             /\ out' # "cur"]_vars


(***************************************************************************)
(* Properties of file hashing.                                             *)
(***************************************************************************)
\* C8: hash_validate_file returns 0 exactly when the expected BIT STRING has
\* no unused bits, the algorithm is known, the file exists, no step of
\* hash_file failed, and the expected bytes are the digest of the file's
\* content (same length, same bytes); it returns an error in every other
\* case.
C8_ValidateFileZeroIffMatch ==
    h.pc = "done" =>
        (h.ret = 0 <=>
            /\ h.bits_unused = 0
            /\ h.algorithm = "sha256"
            /\ h.exists
            /\ h.injected = {}
            /\ h.expected = Digest(h.content))

\* The expected value is a strict prefix of the file's digest, nothing
\* failed, and the call returned an error.
C8_Witness ==
    /\ h.pc = "done"
    /\ h.exists
    /\ h.injected = {}
    /\ Len(h.content) = 3
    /\ Len(h.expected) = 1
    /\ h.expected[1] = Digest(h.content)[1]
    /\ h.ret # 0

\* C9: once hash_file has returned, every file it opened has been closed
\* exactly once, whichever step failed; no file is ever closed more often
\* than opened, and none is closed when the open or the algorithm lookup
\* failed.
C9_FileClosedOnEveryPath ==
    /\ h.closes <= h.opens
    /\ h.opens <= 1
    /\ h.pc \in {"return", "done"} =>
          /\ h.closes = h.opens
          /\ h.opens = (IF h.exists THEN 1 ELSE 0)
          /\ (h.algorithm # "sha256" \/ ~h.exists) => h.closes = 0

\* The buffer allocation failed after the file was opened, and the file was
\* closed once before hash_file returned.
C9_Witness ==
    /\ h.pc = "return"
    /\ h.injected = {"malloc"}
    /\ h.opens = 1
    /\ h.closes = 1

\* C12: a failed open or a failed read is not retried. After file_open
\* failed, hash_file has called it once, has read nothing and has written no
\* digest; after a read reported an error, the loop has stopped at that
\* read (every read before it took a full block), nothing was opened again
\* and no digest was written. In both cases hash_file's error is non-zero
\* and hash_validate_file returns it unchanged.
C12_FailuresPropagateWithoutRetry ==
    /\ (h.pc \in {"return", "done"} /\ h.open_calls = 1 /\ ~h.exists) =>
          /\ h.reads = 0
          /\ h.actual = <<>>
          /\ h.error # 0
          /\ h.pc = "done" => h.ret = h.error
    /\ "read" \in h.injected =>
          /\ h.pc \in {"end3", "end2", "end1", "return", "done"}
          /\ h.open_calls = 1
          /\ h.reads * h.blksize = h.pos + h.blksize
          /\ h.actual = <<>>
          /\ h.error # 0
          /\ h.pc = "done" => h.ret = h.error
    /\ h.open_calls <= 1

\* The second read of a three-byte file failed and hash_validate_file
\* returned the read's error.
C12_Witness ==
    /\ h.pc = "done"
    /\ h.injected = {"read"}
    /\ Len(h.content) = 3
    /\ h.reads = 2
    /\ h.ret = 1


\* C17: the read loop hashes the file as one piece would. While it runs the
\* chunks fed to the digest are the bytes read so far, in order; when it has
\* ended without an error they are the whole content, and the digest
\* hash_file writes is the digest of the whole content computed at once.
C17_ChunkedEqualsWhole ==
    /\ h.pc \in {"read", "digest_final"} =>
          /\ h.fed = SubSeq(h.content, 1, h.pos)
          /\ h.md = EVP_DigestUpdate(EVP_DigestInit_ex, h.fed)
    /\ h.pc = "digest_final" => h.fed = h.content
    /\ h.actual # <<>> =>
          /\ h.fed = h.content
          /\ h.actual = Digest(h.content)

\* A three-byte file was read in blocks of two bytes, in two reads, and the
\* digest was written.
C17_Witness ==
    /\ h.actual # <<>>
    /\ Len(h.content) = 3
    /\ h.blksize = 2
    /\ h.reads = 2
    /\ h.error = 0


====
